---- MODULE Spec2Model ----
(***************************************************************************)
(* Model of the assignment store of the tier-list builder                  *)
(* (src/src/components/TierList.tsx): the mapping container id -> ordered  *)
(* list of unit ids, how it is loaded from localStorage (initialState),    *)
(* how moveUnit / handleDragEnd / resetTierList update it, and how the     *)
(* persistence effect writes it back.                                      *)
(*                                                                         *)
(* React state is modelled by two variables: `items` is the mapping of the *)
(* last render (the value the handlers close over), `prev` is the hook     *)
(* state an updater passed to setItems is applied to.  A re-render copies  *)
(* prev into items and schedules the persistence effect.                   *)
(*                                                                         *)
(* Spec is the running page: it starts on a first visit, handles one user  *)
(* event at a time and may be reloaded at any moment.  SpecLoad is         *)
(* initialState alone, on every persisted value within the bounds.         *)
(***************************************************************************)
EXTENDS Integers, Sequences, FiniteSets, TLC

\* ---------------------------------------------------------------- bounds
\* number of units in the catalog (data.json is static configuration)
NumUnits == 3
\* size of a persisted JSON object: the number of ids its arrays list
MaxListed == 3

\* handlers called one after the other where their number is bounded
MaxQueued == 2

\* ------------------------------------------------------------- catalog
UnitPool ==
  << [id |-> "tower-dart-monkey", name |-> "Dart Monkey", category |-> "Tower"],
     [id |-> "hero-quincy",       name |-> "Quincy",      category |-> "Hero"],
     [id |-> "paragon-apex-plasma-master", name |-> "Apex Plasma Master", category |-> "Paragon"],
     [id |-> "tower-bomb-shooter", name |-> "Bomb Shooter", category |-> "Tower"],
     [id |-> "hero-gwendolin",    name |-> "Gwendolin",   category |-> "Hero"] >>

allUnits == SubSeq(UnitPool, 1, NumUnits)

UnitIds == { allUnits[i].id : i \in 1..Len(allUnits) }

\* unitLookup is a plain object: besides one own property per unit it
\* inherits the properties of Object.prototype.
unitLookup == [ u \in UnitIds |-> CHOOSE r \in { allUnits[i] : i \in 1..Len(allUnits) } : r.id = u ]

ObjectPrototypeKeys == { "constructor" }

\* truthiness of the expression unitLookup[unitId]
unitLookupTruthy(unitId) == unitId \in DOMAIN unitLookup \/ unitId \in ObjectPrototypeKeys

TIERS == << "S", "A", "B", "C", "D" >>

\* ['unassigned', ...TIERS]
ContainerOrder == << "unassigned" >> \o TIERS

ContainerIds == { ContainerOrder[i] : i \in 1..Len(ContainerOrder) }

\* ------------------------------------------------------- array helpers
\* arr.filter((id) => id !== unitId)
Without(arr, unitId) == SelectSeq(arr, LAMBDA id : id # unitId)

\* Array.prototype.includes
Includes(arr, x) == \E i \in 1..Len(arr) : arr[i] = x

\* Array.prototype.indexOf: 0-based index of the first occurrence, -1 if none
indexOf(arr, x) ==
  IF Includes(arr, x)
  THEN (CHOOSE i \in 1..Len(arr) : arr[i] = x /\ \A j \in 1..(i - 1) : arr[j] # x) - 1
  ELSE -1

\* Array.prototype.slice(from, to) with 0-based, end-exclusive indices
slice(arr, from, to) == SubSeq(arr, from + 1, to)

\* the default mapping: every unit in the pool in catalog order, tiers empty
DefaultItems ==
  [ c \in ContainerIds |->
      IF c = "unassigned" THEN [ i \in 1..Len(allUnits) |-> allUnits[i].id ] ELSE << >> ]

\* ------------------------------------------------- persisted value model
\* What localStorage.getItem(STORAGE_KEY) can hold.  kind is
\*   "absent"    nothing stored (null)
\*   "empty"     the empty string
\*   "malformed" text JSON.parse throws on
\*   "null"      the JSON text null
\*   "number"    a JSON number
\*   "object"    a JSON object; obj maps each of its keys to its value,
\*               a value being an array of strings or something else.
NoEntries == [ k \in {} |-> [isArray |-> FALSE, elems |-> << >>] ]

NotArray == [isArray |-> FALSE, elems |-> << >>]

\* strings an array of a persisted entry may hold: the catalog ids, an
\* unknown id, and names of properties every object inherits
PersistedIds == UnitIds \cup { "zzz" } \cup ObjectPrototypeKeys

\* keys a persisted object may have: the pool, the first, the second and
\* the last tier, and an unknown key
PersistedKeyOrder == << "unassigned", TIERS[1], TIERS[2], TIERS[Len(TIERS)], "Z" >>

\* what one place of a persisted object holds: an id listed by an array, or
\* the mark of a value that is not an array
PersistedSlots == PersistedIds \cup { "<not an array>" }

\* the object with n places: place i belongs to the key of index keys[i]
\* (keys is ascending, so the places of one key are adjacent) and holds
\* slots[i]; a key with a marked place has a value that is not an array
persistedObject(n, keys, slots) ==
  [ k \in { PersistedKeyOrder[keys[i]] : i \in 1..n } |->
      LET places == { i \in 1..n : PersistedKeyOrder[keys[i]] = k }
          lo     == CHOOSE i \in places : \A j \in places : i <= j
      IN  IF \E i \in places : slots[i] = "<not an array>" THEN NotArray
          ELSE [isArray |-> TRUE,
                elems |-> [ j \in 1..Cardinality(places) |-> slots[lo + j - 1] ]] ]

NotObjects ==
  { [kind |-> k, obj |-> NoEntries] : k \in { "absent", "empty", "malformed", "null", "number" } }

\* stored is one of the persisted values within the bounds
IsStoredValue(v) ==
  \/ v \in NotObjects
  \/ \E n \in 0..MaxListed :
       \E keys \in { f \in [ 1..n -> 1..Len(PersistedKeyOrder) ] :
                       \A i \in 1..(n - 1) : f[i] <= f[i + 1] } :
         \E slots \in [ 1..n -> PersistedSlots ] :
           v = [kind |-> "object", obj |-> persistedObject(n, keys, slots)]

\* JSON.stringify(items): an object with one array per container
stringify(m) ==
  [kind |-> "object", obj |-> [ c \in DOMAIN m |-> [isArray |-> TRUE, elems |-> m[c]] ]]

\* ---------------------------------------------------------- initialState
\* Object.keys(parsed): a number has no keys
parsedKeys(stored) == IF stored.kind = "object" THEN DOMAIN stored.obj ELSE {}

\* fault: a value that is not an array is read as an empty array
loadThrowsOnParseOnly(stored) == stored.kind \in { "malformed", "null" }

\* the try block throws: JSON.parse on malformed text, Object.keys(null),
\* or parsed[key].filter on a value that is not an array
loadThrows(stored) ==
  \/ stored.kind = "malformed"
  \/ stored.kind = "null"
  \/ \E key \in parsedKeys(stored) : key \in ContainerIds /\ ~stored.obj[key].isArray

\* first loop: keep the valid keys, keep the ids unitLookup knows
filterKnown(stored) ==
  [ c \in ContainerIds |->
      IF c \in parsedKeys(stored)
      THEN SelectSeq(stored.obj[c].elems, LAMBDA unitId : unitLookupTruthy(unitId))
      ELSE << >> ]

\* second loop, one container: drop the ids already seen
RECURSIVE dedupArray(_, _)
dedupArray(arr, seen) ==
  IF arr = << >> THEN [out |-> << >>, seen |-> seen]
  ELSE IF Head(arr) \in seen THEN dedupArray(Tail(arr), seen)
  ELSE LET r == dedupArray(Tail(arr), seen \cup { Head(arr) })
       IN  [out |-> << Head(arr) >> \o r.out, seen |-> r.seen]

\* fault: the seen set is started afresh for every container
dedupPerContainer(filtered, i, seen) ==
  [filtered |-> [ c \in ContainerIds |-> dedupArray(filtered[c], {}).out ],
   seen |-> UNION { { filtered[c][k] : k \in 1..Len(filtered[c]) } : c \in ContainerIds }]

\* second loop: the containers in Object.keys(filtered) order, from the i-th
RECURSIVE dedupContainers(_, _, _)
dedupContainers(filtered, i, seen) ==
  IF i > Len(ContainerOrder) THEN [filtered |-> filtered, seen |-> seen]
  ELSE LET c == ContainerOrder[i]
           r == dedupArray(filtered[c], seen)
       IN  dedupContainers([filtered EXCEPT ![c] = r.out], i + 1, r.seen)

\* fault: the missing units are put in front of the pool
unshiftMissing(filtered, seen) ==
  [filtered EXCEPT !["unassigned"] =
      SelectSeq(DefaultItems["unassigned"], LAMBDA id : id \notin seen) \o @]

\* fault: every unit is pushed onto the pool, seen or not
pushEveryUnit(filtered, seen) ==
  [filtered EXCEPT !["unassigned"] = @ \o DefaultItems["unassigned"]]

\* third loop: push the units not seen onto the pool, in catalog order
pushMissing(filtered, seen) ==
  [filtered EXCEPT !["unassigned"] =
      @ \o SelectSeq(DefaultItems["unassigned"], LAMBDA id : id \notin seen)]

initialState(stored) ==
  IF stored.kind \in { "absent", "empty" } THEN DefaultItems
  ELSE IF loadThrows(stored) THEN DefaultItems
  ELSE LET d == dedupContainers(filterKnown(stored), 1, {})
       IN  pushMissing(d.filtered, d.seen)

\* ------------------------------------------------------------ the store
VARIABLES
  stored,   \* localStorage[STORAGE_KEY]
  items,    \* the mapping of the last render, the one the handlers close over
  prev,     \* the hook state: what the next updater passed to setItems receives
  pc,       \* "idle": waiting for an event; "done": a handler returned without
            \* an update; "render": an update is queued; "effect": rendered, the
            \* persistence effect has not run yet; "crashed": the render
            \* threw and the page is gone
  op,       \* the operation being processed: its handler, its arguments and
            \* the branch of its code it took; NoOp when idle
  alert,    \* the message window.alert shows during the operation
  payload,  \* what exportTierList hands to the clipboard or the download
  calls     \* handler calls so far, counted where their number is bounded

vars == << stored, items, prev, pc, op, alert, payload, calls >>

\* nothing is being exported
NoPayload == [tiers |-> [ c \in {} |-> << >> ]]

NoOver == [id |-> "", type |-> "none"]

NoResponse == [cancelled |-> TRUE, text |-> << >>]

\* handler(unitId, over / response), the branch taken, the container resolved
Operation(name, branch, unitId, over, response, target) ==
  [name |-> name, branch |-> branch, unitId |-> unitId, over |-> over,
   response |-> response, target |-> target]

NoOp == Operation("none", "", "", NoOver, NoResponse, "")

InitOp == Operation("initialState", "", "", NoOver, NoResponse, "")

\* ids of the units the last render shows: the draggable and clickable ones
renderedIds(m) == UNION { { m[c][i] : i \in 1..Len(m[c]) } : c \in ContainerIds }

\* (['unassigned', ...TIERS]).find((containerId) => m[containerId].includes(id));
\* "" stands for undefined
findIn(m, id) ==
  IF \E i \in 1..Len(ContainerOrder) : Includes(m[ContainerOrder[i]], id)
  THEN ContainerOrder[CHOOSE i \in 1..Len(ContainerOrder) :
         /\ Includes(m[ContainerOrder[i]], id)
         /\ \A j \in 1..(i - 1) : ~Includes(m[ContainerOrder[j]], id)]
  ELSE ""

\* fault: an id found in no container is taken to be in the pool
findContainerOrPool(id) ==
  IF id = "unassigned" \/ Includes(TIERS, id) THEN id
  ELSE IF findIn(items, id) = "" THEN "unassigned"
  ELSE findIn(items, id)

\* findContainer reads the rendered mapping
findContainer(id) ==
  IF id = "" THEN ""
  ELSE IF id = "unassigned" THEN "unassigned"
  ELSE IF Includes(TIERS, id) THEN id
  ELSE findIn(items, id)

\* fault: the unit is not removed from its source
moveUnitKeepSource(p, unitId, target) ==
  IF findIn(p, unitId) = target THEN p
  ELSE [p EXCEPT ![target] = Append(Without(p[target], unitId), unitId)]

\* fault: the unit is put in front of the target
moveUnitPrepend(p, unitId, target) ==
  LET source == findIn(p, unitId)
      next1  == IF source # "" THEN [p EXCEPT ![source] = Without(p[source], unitId)] ELSE p
  IN  IF source = target THEN p
      ELSE [next1 EXCEPT ![target] = << unitId >> \o Without(p[target], unitId)]

\* fault: no early return when the unit is already in the target
moveUnitNoGuard(p, unitId, target) ==
  LET source == findIn(p, unitId)
      next1  == IF source # "" THEN [p EXCEPT ![source] = Without(p[source], unitId)] ELSE p
  IN  [next1 EXCEPT ![target] = Append(Without(p[target], unitId), unitId)]

\* fault: the source container is looked up in the rendered mapping
moveUnitFromRendered(p, unitId, target) ==
  LET source == findIn(items, unitId)
      next0  == [p EXCEPT ![target] = Without(p[target], unitId)]
      next1  == IF source # "" THEN [next0 EXCEPT ![source] = Without(p[source], unitId)]
                ELSE next0
  IN  IF source = target THEN p
      ELSE [next1 EXCEPT ![target] = Append(next1[target], unitId)]

\* the updater moveUnit passes to setItems
moveUnitUpdate(p, unitId, target) ==
  LET source == findIn(p, unitId)
      next0  == [p EXCEPT ![target] = Without(p[target], unitId)]
      next1  == IF source # "" THEN [next0 EXCEPT ![source] = Without(p[source], unitId)]
                ELSE next0
  IN  IF source = target THEN p
      ELSE [next1 EXCEPT ![target] = Append(next1[target], unitId)]

\* the start index Array.prototype.splice uses: a negative one counts from
\* the end, and the result is kept within 0..length
spliceStart(start, length) ==
  IF start < 0 THEN (IF length + start < 0 THEN 0 ELSE length + start)
  ELSE IF start > length THEN length ELSE start

\* arrayMove of @dnd-kit/sortable:
\*   newArray.splice(to < 0 ? newArray.length + to : to, 0, newArray.splice(from, 1)[0])
\* the element is spliced out at `from` first; one spliced out past the end
\* is undefined
arrayMove(array, from, to) ==
  LET f     == spliceStart(from, Len(array))
      moved == IF f < Len(array) THEN array[f + 1] ELSE "undefined"
      rest  == IF f < Len(array)
               THEN slice(array, 0, f) \o slice(array, f + 1, Len(array))
               ELSE array
      at    == spliceStart(IF to < 0 THEN Len(rest) + to ELSE to, Len(rest))
  IN  slice(rest, 0, at) \o << moved >> \o slice(rest, at, Len(rest))

\* fault: the two elements are exchanged
reorderSwap(p, activeContainer, activeIndex, overIndex) ==
  [p EXCEPT ![activeContainer] =
     [@ EXCEPT ![activeIndex + 1] = p[activeContainer][overIndex + 1],
               ![overIndex + 1] = p[activeContainer][activeIndex + 1]]]

\* the updater of the same-container branch of handleDragEnd
reorderUpdate(p, activeContainer, activeIndex, overIndex) ==
  [p EXCEPT ![activeContainer] = arrayMove(p[activeContainer], activeIndex, overIndex)]

\* fault: the unit is inserted behind the unit it was dropped on
insertAfterOver(p, activeId, activeContainer, over, overContainer) ==
  LET next      == [p EXCEPT ![activeContainer] = Without(p[activeContainer], activeId)]
      overItems == p[overContainer]
      insertAt  == IF over.type = "unit" THEN indexOf(overItems, over.id) + 1 ELSE Len(overItems)
  IN  [next EXCEPT ![overContainer] =
         slice(overItems, 0, insertAt) \o << activeId >> \o slice(overItems, insertAt, Len(overItems))]

\* the updater of the cross-container branch of handleDragEnd
insertUpdate(p, activeId, activeContainer, over, overContainer) ==
  LET next      == [p EXCEPT ![activeContainer] = Without(p[activeContainer], activeId)]
      overItems == p[overContainer]
      insertAt  == IF over.type = "unit" THEN indexOf(overItems, over.id) ELSE Len(overItems)
      normalizedIndex == IF insertAt >= 0 THEN insertAt ELSE Len(overItems)
  IN  [next EXCEPT ![overContainer] =
         slice(overItems, 0, normalizedIndex) \o << activeId >>
           \o slice(overItems, normalizedIndex, Len(overItems))]

\* fault: a drop on the surface of the unit's own container moves it to the end
dragEndSurfaceAppends(activeId, over) ==
  LET activeContainer == findContainer(activeId)
      overContainer   == findContainer(over.id)
      activeIndex     == indexOf(items[activeContainer], activeId)
      overIndex       == indexOf(items[overContainer], over.id)
      return(branch)  == [branch |-> branch, set |-> FALSE, next |-> prev]
  IN  IF over.type = "none" THEN return("no-over")
      ELSE IF activeContainer = "" \/ overContainer = "" THEN return("no-container")
      ELSE IF activeContainer = overContainer /\ over.type = "container"
      THEN [branch |-> "surface", set |-> TRUE,
            next |-> [prev EXCEPT ![activeContainer] = Append(Without(@, activeId), activeId)]]
      ELSE IF activeContainer = overContainer
      THEN IF activeIndex # overIndex /\ activeIndex # -1 /\ overIndex # -1
           THEN [branch |-> "reorder", set |-> TRUE,
                 next |-> reorderUpdate(prev, activeContainer, activeIndex, overIndex)]
           ELSE return("same-index")
      ELSE [branch |-> "insert", set |-> TRUE,
            next |-> insertUpdate(prev, activeId, activeContainer, over, overContainer)]

\* fault: the same-container branch does not look at the two indices
dragEndNoIndexGuard(activeId, over) ==
  LET activeContainer == findContainer(activeId)
      overContainer   == findContainer(over.id)
      activeIndex     == indexOf(items[activeContainer], activeId)
      overIndex       == indexOf(items[overContainer], over.id)
      return(branch)  == [branch |-> branch, set |-> FALSE, next |-> prev]
  IN  IF over.type = "none" THEN return("no-over")
      ELSE IF activeContainer = "" \/ overContainer = "" THEN return("no-container")
      ELSE IF activeContainer = overContainer
      THEN IF over.type = "container" THEN return("surface")
           ELSE [branch |-> "reorder", set |-> TRUE,
                 next |-> reorderUpdate(prev, activeContainer, activeIndex, overIndex)]
      ELSE [branch |-> "insert", set |-> TRUE,
            next |-> insertUpdate(prev, activeId, activeContainer, over, overContainer)]

\* handleDragEnd: the branch taken, whether setItems is called, and the
\* mapping its updater returns
dragEnd(activeId, over) ==
  LET activeContainer == findContainer(activeId)
      overContainer   == findContainer(over.id)
      activeIndex     == indexOf(items[activeContainer], activeId)
      overIndex       == indexOf(items[overContainer], over.id)
      return(branch)  == [branch |-> branch, set |-> FALSE, next |-> prev]
  IN  IF over.type = "none" THEN return("no-over")
      ELSE IF activeContainer = "" \/ overContainer = "" THEN return("no-container")
      ELSE IF activeContainer = overContainer
      THEN IF over.type = "container" THEN return("surface")
           ELSE IF activeIndex # overIndex /\ activeIndex # -1 /\ overIndex # -1
           THEN [branch |-> "reorder", set |-> TRUE,
                 next |-> reorderUpdate(prev, activeContainer, activeIndex, overIndex)]
           ELSE return("same-index")
      ELSE [branch |-> "insert", set |-> TRUE,
            next |-> insertUpdate(prev, activeId, activeContainer, over, overContainer)]

\* ------------------------------------------------- fallback text entry
\* a text is a sequence of characters
Lower == << "a", "b", "c", "d", "e", "g", "i", "l", "n", "o", "p", "s", "u", "z" >>
Upper == << "A", "B", "C", "D", "E", "G", "I", "L", "N", "O", "P", "S", "U", "Z" >>

Whitespace == { " ", "\t" }

\* fault: the case of the text is kept
toUpperCaseKeeps(text) == text

\* String.prototype.toUpperCase
toUpperCase(text) ==
  [ i \in 1..Len(text) |->
      IF Includes(Lower, text[i]) THEN Upper[indexOf(Lower, text[i]) + 1] ELSE text[i] ]

\* String.prototype.trim
RECURSIVE trimStart(_)
trimStart(text) ==
  IF text # << >> /\ Head(text) \in Whitespace THEN trimStart(Tail(text)) ELSE text

RECURSIVE trimEnd(_)
trimEnd(text) ==
  IF text # << >> /\ text[Len(text)] \in Whitespace
  THEN trimEnd(SubSeq(text, 1, Len(text) - 1)) ELSE text

trim(text) == trimEnd(trimStart(text))

\* what window.prompt can return: null on cancel, else the text entered
Responses ==
  { NoResponse } \cup
  { [cancelled |-> FALSE, text |-> t] : t \in
      { << >>, << " " >>, << "s" >>, << " ", "a", " " >>, << "B" >>, << "c" >>, << "D" >>,
        << "p", "o", "o", "l" >>, << "N", "o", "n", "e" >>,
        << "u", "n", "a", "s", "s", "i", "g", "n", "e", "d" >>,
        << "z", "z", "z" >>, << "s", "s" >> } }

\* fault: text that names no container is dropped without a message
fallbackTargetSilent(response) ==
  LET normalized == toUpperCase(trim(response.text))
  IN  IF response.cancelled \/ normalized = << >> THEN [do |-> "return", target |-> ""]
      ELSE IF normalized \in { << "U", "N", "A", "S", "S", "I", "G", "N", "E", "D" >>,
                               << "N", "O", "N", "E" >>, << "P", "O", "O", "L" >> }
      THEN [do |-> "move", target |-> "unassigned"]
      ELSE IF Len(normalized) = 1 /\ Includes(TIERS, normalized[1])
      THEN [do |-> "move", target |-> normalized[1]]
      ELSE [do |-> "return", target |-> ""]

\* handleFallbackAssign after the prompt: "return" (nothing happens),
\* "alert" (unknown tier) or "move" with the target container
fallbackTarget(response) ==
  LET normalized == toUpperCase(trim(response.text))
  IN  IF response.cancelled \/ response.text = << >> THEN [do |-> "return", target |-> ""]
      ELSE IF normalized = << >> THEN [do |-> "return", target |-> ""]
      ELSE IF normalized \in { << "U", "N", "A", "S", "S", "I", "G", "N", "E", "D" >>,
                               << "N", "O", "N", "E" >>, << "P", "O", "O", "L" >> }
      THEN [do |-> "move", target |-> "unassigned"]
      ELSE IF Len(normalized) = 1 /\ Includes(TIERS, normalized[1])
      THEN [do |-> "move", target |-> normalized[1]]
      ELSE [do |-> "alert", target |-> ""]

\* --------------------------------------------------------------- actions
\* the component is constructed: useState(initialState) has run on what
\* localStorage holds, the first effect is pending
Mounted ==
  /\ items = initialState(stored)
  /\ prev = items
  /\ pc = "effect"
  /\ op = InitOp
  /\ alert = "none"
  /\ payload = NoPayload
  /\ calls = 0

\* first visit: nothing is stored
Init == stored = [kind |-> "absent", obj |-> NoEntries] /\ Mounted

\* the page is loaded again: the component is constructed from localStorage
Reload ==
  /\ items' = initialState(stored)
  /\ prev' = items'
  /\ pc' = "effect"
  /\ op' = InitOp
  /\ alert' = "none"
  /\ payload' = NoPayload
  /\ UNCHANGED << stored, calls >>

\* a handler is no longer recorded once its update is rendered; a reset
\* stays recorded until the next event
settled(o) == IF o.name = "resetTierList" THEN o ELSE NoOp

\* fault: the effect does not run after the render
RenderWithoutEffect ==
  /\ pc = "render"
  /\ items' = prev
  /\ pc' = "idle"
  /\ op' = settled(op)
  /\ UNCHANGED << stored, prev, alert, payload, calls >>

\* the page reads unit.name of unitLookup[unitId] for every listed id, which
\* throws for an id unitLookup has nothing for
renders(m) == \A unitId \in renderedIds(m) : unitLookupTruthy(unitId)

\* React renders the queued update; the handler that queued it is done
Render ==
  /\ pc = "render"
  /\ IF renders(prev)
     THEN items' = prev /\ pc' = "effect"
     ELSE items' = items /\ pc' = "crashed"
  /\ op' = settled(op)
  /\ UNCHANGED << stored, prev, alert, payload, calls >>

\* useEffect(() => localStorage.setItem(STORAGE_KEY, JSON.stringify(items)), [items])
PersistEffect ==
  /\ pc = "effect"
  /\ stored' = stringify(items)
  /\ pc' = "idle"
  /\ op' = settled(op)
  /\ alert' = "none"
  /\ UNCHANGED << items, prev, payload, calls >>

\* a handler that queued no update has returned; an update queued by an
\* earlier handler is still to be rendered
Return ==
  /\ pc = "done"
  /\ pc' = IF prev # items THEN "render" ELSE "idle"
  /\ op' = NoOp
  /\ alert' = "none"
  /\ payload' = NoPayload
  /\ UNCHANGED << stored, items, prev, calls >>

\* a click on a unit: handleFallbackAssign(unitId), the prompt answered by
\* response.  A moveUnit whose updater returns prev itself renders nothing.
HandleFallbackAssign(unitId, response) ==
  LET f    == fallbackTarget(response)
      next == IF f.do = "move" THEN moveUnitUpdate(prev, unitId, f.target) ELSE prev
  IN  /\ prev' = next
      /\ pc' = IF next # prev THEN "render" ELSE "done"
      /\ alert' = IF f.do = "alert" THEN "unknown-tier" ELSE "none"
      /\ op' = Operation("handleFallbackAssign", f.do, unitId, NoOver, response, f.target)
      /\ UNCHANGED << stored, items, payload >>

\* the drag of activeId ends over `over`: handleDragEnd({active, over})
HandleDragEnd(activeId, over) ==
  LET r == dragEnd(activeId, over)
  IN  /\ prev' = r.next
      /\ pc' = IF r.set THEN "render" ELSE "done"
      /\ alert' = "none"
      /\ op' = Operation("handleDragEnd", r.branch, activeId, over, NoResponse,
                          findContainer(over.id))
      /\ UNCHANGED << stored, items, payload >>

\* fault: the reset refills the pool and leaves the tiers as they are
ResetTierListKeepsTiers ==
  /\ prev' = [prev EXCEPT !["unassigned"] = DefaultItems["unassigned"]]
  /\ pc' = "render"
  /\ alert' = "none"
  /\ op' = Operation("resetTierList", "", "", NoOver, NoResponse, "")
  /\ UNCHANGED << stored, items, payload >>

\* the Reset button
ResetTierList ==
  /\ prev' = DefaultItems
  /\ pc' = "render"
  /\ alert' = "none"
  /\ op' = Operation("resetTierList", "", "", NoOver, NoResponse, "")
  /\ UNCHANGED << stored, items, payload >>

\* fault: the id is exported in place of the name
exportNameIsId(unitId) == unitId

\* unitLookup[unitId]?.name ?? unitId; the constructor every object inherits
\* is the function named Object
exportName(unitId) ==
  IF unitId \in DOMAIN unitLookup THEN unitLookup[unitId].name
  ELSE IF unitId \in ObjectPrototypeKeys THEN "Object"
  ELSE unitId

\* the tiers of the exported object; its updatedAt is the time of the
\* export and is left out
exportTiers(m) ==
  [ key \in ContainerIds |-> [ i \in 1..Len(m[key]) |-> exportName(m[key][i]) ] ]

\* the Export JSON button: the payload is built from the rendered mapping and
\* copied to the clipboard (with an alert) or, failing that, downloaded
ExportTierList(clipboardWorks) ==
  /\ payload' = [tiers |-> exportTiers(items)]
  /\ alert' = IF clipboardWorks THEN "copied" ELSE "none"
  /\ pc' = "done"
  /\ op' = Operation("exportTierList",
                      IF op.name = "resetTierList" THEN "after-reset" ELSE "",
                      "", NoOver, NoResponse, "")
  /\ UNCHANGED << stored, items, prev >>

\* where a drag can end: nowhere, on a column, or on a rendered unit
Overs ==
  { NoOver } \cup { [id |-> c, type |-> "container"] : c \in ContainerIds }
  \cup { [id |-> u, type |-> "unit"] : u \in renderedIds(items) }

\* one user event; events are handled one at a time, each after the
\* render and the effect of the one before
Event ==
  /\ pc = "idle"
  /\ \/ \E unitId \in renderedIds(items), response \in Responses :
          HandleFallbackAssign(unitId, response)
     \/ \E activeId \in renderedIds(items), over \in Overs : HandleDragEnd(activeId, over)
     \/ ResetTierList
     \/ \E clipboardWorks \in BOOLEAN : ExportTierList(clipboardWorks)
  /\ UNCHANGED calls

Next == Event \/ Return \/ Render \/ PersistEffect \/ Reload

Spec == Init /\ [][Next]_vars

\* ----------------------------------------------------- loading in isolation
\* initialState on every persisted value within the bounds, whoever wrote it
InitLoad == IsStoredValue(stored) /\ Mounted

\* drop targets of any DragEndEvent: those of the page, an id the page does
\* not know, and a column whose droppable data is missing
AnyOvers ==
  Overs \cup {[id |-> "zzz", type |-> "unit"]}
        \cup {[id |-> c, type |-> "undefined"] : c \in ContainerIds}

\* the << active.id, over >> of any DragEndEvent: a rendered unit or an
\* unknown id dragged over any target, and a column id as the dragged id
\* over nothing or over a unit of that column
AnyDragEnds ==
  {<< activeId, over >> : activeId \in renderedIds(items) \cup {"zzz"}, over \in AnyOvers}
    \cup {<< c, NoOver >> : c \in ContainerIds}
    \cup UNION {{<< c, [id |-> items[c][i], type |-> "unit"] >> : i \in 1..Len(items[c])}
                  : c \in ContainerIds}

\* handleDragEnd called with any event
EventAnyDrag ==
  /\ pc = "idle"
  /\ \E e \in AnyDragEnds : HandleDragEnd(e[1], e[2])
  /\ UNCHANGED calls

NextAnyDrag == EventAnyDrag \/ Return \/ Render \/ PersistEffect

\* first visit, then drag ends only
SpecAnyDrag == Init /\ [][NextAnyDrag]_vars

\* the answers to the prompt that name a container
MovingResponses == { response \in Responses : fallbackTarget(response).do = "move" }

\* a handler is called when the page is idle or again while the update of
\* an earlier call is queued and not rendered: the handler is still the one
\* of the last render
EventQueued ==
  /\ pc \in {"idle", "render"}
  /\ calls < MaxQueued
  /\ calls' = calls + 1
  /\ \/ \E unitId \in renderedIds(items), response \in MovingResponses :
          HandleFallbackAssign(unitId, response)
     \/ \E activeId \in renderedIds(items), over \in Overs : HandleDragEnd(activeId, over)

NextQueued == EventQueued \/ Return \/ Render \/ PersistEffect

\* first visit, then up to MaxQueued handler calls, rendered or not between
\* them
SpecQueued == Init /\ [][NextQueued]_vars

NextLoad == PersistEffect \/ Reload

SpecLoad == InitLoad /\ [][NextLoad]_vars

\* ============================================================ properties
\* every place of a mapping: << container, position >>
Positions(m) == UNION { { << c, i >> : i \in 1..Len(m[c]) } : c \in ContainerIds }

\* how often id occurs in the mapping
Occurrences(m, id) == Cardinality({ q \in Positions(m) : m[q[1]][q[2]] = id })

\* every catalog id exactly once, in one container, and no other id anywhere
ExactlyOnce(m) ==
  /\ \A id \in UnitIds : Occurrences(m, id) = 1
  /\ renderedIds(m) \subseteq UnitIds

\* new is old with its element u taken out
RemovedFrom(old, new, u) ==
  \E k \in 1..Len(old) :
    /\ old[k] = u
    /\ new = SubSeq(old, 1, k - 1) \o SubSeq(old, k + 1, Len(old))

\* new is old with u put in at 0-based index k
InsertedAt(old, new, u, k) ==
  /\ k \in 0..Len(old)
  /\ new = SubSeq(old, 1, k) \o << u >> \o SubSeq(old, k + 1, Len(old))

\* all containers but those of the set cs are the same in both mappings
SameOutside(before, after, cs) == \A c \in ContainerIds \ cs : after[c] = before[c]

\* the step is a handler invocation of the given name
Handles(name) == pc = "idle" /\ op'.name = name

\* ------------------------------------------------------------------- C1
\* C1: from a valid mapping, after any sequence of fallback moves, drag-ends
\* and resets (and the renders, effects and reloads between them) every
\* catalog id is in exactly one container exactly once and no other id is
\* anywhere, in the hook state and in the rendered mapping.
C1_EveryUnitExactlyOnce == ExactlyOnce(prev) /\ ExactlyOnce(items)

C1_Witness ==
  /\ op.name = "handleDragEnd" /\ op.branch = "insert" /\ pc = "render"
  /\ op.target = "A" /\ Len(prev["A"]) = 2 /\ Len(prev["S"]) = 1

\* ---------------------------------------------------------- load claims
\* the component has just been constructed from `stored`
Loaded == op.name = "initialState" /\ pc = "effect"

\* the array persisted for container c, empty if there is none
raw(c) ==
  IF stored.kind = "object" /\ c \in DOMAIN stored.obj THEN stored.obj[c].elems ELSE << >>

\* a JSON object whose container entries are all arrays
WellFormed ==
  /\ stored.kind = "object"
  /\ \A c \in ContainerIds \cap DOMAIN stored.obj : stored.obj[c].isArray

Listed(id) == \E c \in ContainerIds : Includes(raw(c), id)

\* the first container, in the order unassigned then TIERS, that lists id
firstContainer(id) ==
  ContainerOrder[CHOOSE i \in 1..Len(ContainerOrder) :
    /\ Includes(raw(ContainerOrder[i]), id)
    /\ \A j \in 1..(i - 1) : ~Includes(raw(ContainerOrder[j]), id)]

\* how often the persisted containers list id
TimesListed(id) ==
  Cardinality({ q \in UNION { { << c, i >> : i \in 1..Len(raw(c)) } : c \in ContainerIds } :
                  raw(q[1])[q[2]] = id })

\* the loaded ids that container c persisted are in the order of their
\* first occurrences in the persisted array
OrderKept(c) ==
  \A i, j \in 1..Len(items[c]) :
    (i < j /\ Includes(raw(c), items[c][i]) /\ Includes(raw(c), items[c][j]))
      => indexOf(raw(c), items[c][i]) < indexOf(raw(c), items[c][j])

\* every listed catalog id is loaded into the first container listing it
PlacementKept == \A id \in UnitIds : Listed(id) => findIn(items, id) = firstContainer(id)

\* ------------------------------------------------------------------- C2
\* C2: for every persisted value that parses as JSON the loaded mapping has
\* exactly the container keys, holds every catalog id exactly once and holds
\* no id that is not a catalog id.
C2_LoadKeepsOnlyCatalogIds ==
  (Loaded /\ stored.kind \in { "null", "number", "object" })
    => (DOMAIN items = ContainerIds /\ ExactlyOnce(items))

\* ------------------------------------------------------------------- C3
\* C3: when the persisted containers list a catalog id more than once, each
\* listed catalog id is loaded exactly once, into the first container listing
\* it (unassigned, then TIERS order), and the ids each container keeps are in
\* their persisted order.
C3_FirstOccurrenceKept ==
  (Loaded /\ WellFormed /\ \E id \in UnitIds : TimesListed(id) > 1)
    => /\ \A id \in UnitIds : Listed(id) => Occurrences(items, id) = 1
       /\ PlacementKept
       /\ \A c \in ContainerIds : OrderKept(c)

C3_Witness ==
  /\ Loaded /\ WellFormed
  /\ \E id \in UnitIds :
       /\ Includes(raw("S"), id) /\ Includes(raw("A"), id)
       /\ Includes(items["S"], id) /\ ~Includes(items["A"], id)
       /\ Len(items["A"]) = 1

\* ------------------------------------------------------------------- C4
\* the catalog ids no persisted container lists, in catalog order
missing == SelectSeq(DefaultItems["unassigned"], LAMBDA id : ~Listed(id))

\* C4: when the persisted containers omit catalog ids, the pool ends with the
\* omitted ids in catalog order, what precedes them are ids the persisted pool
\* listed, and every other catalog id keeps its persisted container and order.
C4_MissingAppendedToPool ==
  (Loaded /\ WellFormed /\ missing # << >>)
    => LET pool == items["unassigned"]
           n    == Len(missing)
       IN  /\ Len(pool) >= n
           /\ SubSeq(pool, Len(pool) - n + 1, Len(pool)) = missing
           /\ \A i \in 1..(Len(pool) - n) : Includes(raw("unassigned"), pool[i])
           /\ PlacementKept
           /\ \A c \in ContainerIds : OrderKept(c)

C4_Witness ==
  /\ Loaded /\ WellFormed /\ Len(missing) = 2
  /\ Len(items["unassigned"]) = 3
  /\ items["unassigned"][1] \in UnitIds
  /\ Includes(raw("unassigned"), items["unassigned"][1])

\* ------------------------------------------------------------------- C5
\* text that does not parse, or an object with a container entry that is
\* not an array
Malformed ==
  \/ stored.kind = "malformed"
  \/ /\ stored.kind = "object"
     /\ \E c \in ContainerIds \cap DOMAIN stored.obj : ~stored.obj[c].isArray

\* C5: a malformed persisted value loads as the default mapping, the one
\* loaded when nothing is persisted: all units in the pool in catalog order,
\* every tier empty.
C5_MalformedLoadsDefault ==
  (Loaded /\ Malformed)
    => /\ items = initialState([kind |-> "absent", obj |-> NoEntries])
       /\ \A i \in 1..Len(allUnits) : items["unassigned"][i] = allUnits[i].id
       /\ Len(items["unassigned"]) = Len(allUnits)
       /\ \A i \in 1..Len(TIERS) : items[TIERS[i]] = << >>
       /\ prev = items

C5_Witness ==
  /\ Loaded /\ stored.kind = "object"
  /\ "A" \in DOMAIN stored.obj /\ ~stored.obj["A"].isArray
  /\ \E id \in UnitIds : Includes(raw("S"), id)
  /\ items = DefaultItems

\* ----------------------------------------------------------- move claims
\* the step is moveUnit(op'.unitId, op'.target), called by the fallback
MoveUnitStep == Handles("handleFallbackAssign") /\ op'.branch = "move"

\* ------------------------------------------------------------------- C6
\* C6: moveUnit of a unit that is in another container than the target takes
\* the unit out of its source, leaving the rest of the source in order, and
\* makes it the last element of the target behind the elements the target
\* had; no other container changes.
C6_MoveAppendsToTarget ==
  [][ (MoveUnitStep /\ findIn(prev, op'.unitId) \notin { "", op'.target })
        => LET source == findIn(prev, op'.unitId)
           IN  /\ RemovedFrom(prev[source], prev'[source], op'.unitId)
               /\ prev'[op'.target] = Append(prev[op'.target], op'.unitId)
               /\ SameOutside(prev, prev', { source, op'.target }) ]_vars

C6_Witness ==
  /\ op.name = "handleFallbackAssign" /\ op.branch = "move" /\ pc = "render"
  /\ findIn(items, op.unitId) # op.target
  /\ Len(items[op.target]) = 2
  /\ prev[op.target] = Append(items[op.target], op.unitId)

\* ------------------------------------------------------------------- C7
\* C7: moveUnit of a unit that is already in the target changes nothing: the
\* hook state, the unit's position in it, the rendered mapping and the stored
\* value stay as they are.
C7_MoveToOwnContainerIsNoOp ==
  [][ (MoveUnitStep /\ findIn(prev, op'.unitId) = op'.target)
        => (prev' = prev /\ items' = items /\ stored' = stored /\ pc' = "done") ]_vars

C7_Witness ==
  /\ op.name = "handleFallbackAssign" /\ op.branch = "move" /\ pc = "done"
  /\ findIn(prev, op.unitId) = op.target
  /\ Len(prev[op.target]) >= 2
  /\ prev[op.target][1] = op.unitId

\* ----------------------------------------------------------- drag claims
\* the container a drop target is in: the column itself, or the container
\* holding the unit dropped on; "" if none
overContainerOf(m, over) ==
  IF over.type = "container" THEN over.id
  ELSE IF over.type = "unit" THEN findIn(m, over.id)
  ELSE ""

\* ------------------------------------------------------------------- C8
\* C8: a drag-end whose drop target is in another container than the dragged
\* unit takes the unit out of its source and puts it into the target: at the
\* index of the unit dropped on, which and whose successors move one later,
\* or at the end when dropped on the column; the index is within
\* 0..length of the target; no other container changes.
C8_CrossContainerInsert ==
  [][ LET source == findIn(prev, op'.unitId)
          target == overContainerOf(prev, op'.over)
      IN  (Handles("handleDragEnd") /\ source # "" /\ target # "" /\ source # target)
            => LET at == IF op'.over.type = "unit"
                         THEN indexOf(prev[target], op'.over.id)
                         ELSE Len(prev[target])
               IN  /\ RemovedFrom(prev[source], prev'[source], op'.unitId)
                   /\ InsertedAt(prev[target], prev'[target], op'.unitId, at)
                   /\ indexOf(prev'[target], op'.unitId) \in 0..Len(prev[target])
                   /\ SameOutside(prev, prev', { source, target }) ]_vars

C8_Witness ==
  /\ op.name = "handleDragEnd" /\ op.branch = "insert" /\ pc = "render"
  /\ op.over.type = "unit"
  /\ Len(items[op.target]) = 2
  /\ items[op.target][2] = op.over.id
  /\ prev[op.target] = << items[op.target][1], op.unitId, op.over.id >>

\* ------------------------------------------------------------------- C9
\* C9: a drag-end on another unit of the dragged unit's own container puts
\* the dragged unit at the index the other unit had; the container keeps its
\* length and its elements, the other elements keep their relative order,
\* and no other container changes.
C9_SameContainerReorder ==
  [][ LET c == findIn(prev, op'.unitId)
      IN  (/\ Handles("handleDragEnd") /\ op'.over.type = "unit"
           /\ op'.over.id # op'.unitId
           /\ c # "" /\ c = findIn(prev, op'.over.id))
            => /\ indexOf(prev'[c], op'.unitId) = indexOf(prev[c], op'.over.id)
               /\ Len(prev'[c]) = Len(prev[c])
               /\ \A id \in UnitIds : Includes(prev'[c], id) <=> Includes(prev[c], id)
               /\ Without(prev'[c], op'.unitId) = Without(prev[c], op'.unitId)
               /\ SameOutside(prev, prev', { c }) ]_vars

C9_Witness ==
  /\ op.name = "handleDragEnd" /\ op.branch = "reorder" /\ pc = "render"
  /\ Len(items[op.target]) = 3
  /\ items[op.target][1] = op.unitId
  /\ items[op.target][3] = op.over.id
  /\ prev[op.target] = << items[op.target][2], op.over.id, op.unitId >>

\* ------------------------------------------------------------------ C10
\* C10: a drag-end on the column of the dragged unit's own container changes
\* nothing; the unit does not move to the end of its container.
C10_SurfaceDropIsNoOp ==
  [][ (/\ Handles("handleDragEnd") /\ op'.over.type = "container"
       /\ findIn(prev, op'.unitId) = op'.over.id)
        => (prev' = prev /\ items' = items /\ stored' = stored /\ pc' = "done") ]_vars

C10_Witness ==
  /\ op.name = "handleDragEnd" /\ op.branch = "surface" /\ pc = "done"
  /\ op.over.type = "container"
  /\ findIn(prev, op.unitId) = op.over.id
  /\ Len(prev[op.over.id]) >= 2
  /\ prev[op.over.id][1] = op.unitId

\* the mapping, the rendered mapping and the stored value stay as they are
\* and the handler returns without queueing an update
NothingHappens ==
  /\ prev' = prev
  /\ items' = items
  /\ stored' = stored
  /\ pc' = "done"

\* C11: a drag end within one container whose dragged unit and target are at
\* the same index (a unit dropped onto itself), or where one of the two is at
\* no index of the container, leaves every container's sequence as it was
C11_SelfOrInvalidReorderIsNoOp ==
  [][ \A c \in ContainerIds :
        LET activeId == op'.unitId
            over     == op'.over
            from     == indexOf(items[c], activeId)
            to       == indexOf(items[c], over.id)
        IN  ( /\ Handles("handleDragEnd")
              /\ over.type # "none"
              /\ activeId = c \/ Includes(items[c], activeId)
              /\ over.id = c \/ Includes(items[c], over.id)
              /\ from = to \/ from = -1 \/ to = -1 )
            => (prev' = prev /\ items' = items) ]_vars

\* C11 witness: a unit was dropped onto itself
C11_Witness ==
  /\ pc = "done"
  /\ op.name = "handleDragEnd"
  /\ op.unitId = op.over.id
  /\ op.over.type = "unit"
  /\ op.unitId \in UnitIds

\* an id that is no container and is listed in no container
Unresolved(id) ==
  /\ id \notin ContainerIds
  /\ \A c \in ContainerIds : ~Includes(items[c], id)

\* C12: a drag end without a drop target, or one whose dragged id or target
\* id is in no container, changes nothing and returns normally
C12_UnresolvedDragIsNoOp ==
  [][ ( /\ Handles("handleDragEnd")
        /\ \/ op'.over.type = "none"
           \/ Unresolved(op'.unitId)
           \/ Unresolved(op'.over.id) )
      => (NothingHappens /\ alert' = "none") ]_vars

\* C12 witness: an id the page does not know was dropped on a column
C12_Witness ==
  /\ pc = "done"
  /\ op.name = "handleDragEnd"
  /\ op.unitId = "zzz"
  /\ op.over.type = "container"
  /\ prev = items

\* two characters that are the same letter in either case
SameLetter(a, b) ==
  a = b \/ \E k \in 1..Len(Lower) : {a, b} = {Lower[k], Upper[k]}

\* the text is the word, in any case, with whitespace around it
Says(text, word) ==
  \E i \in 0..Len(text) :
    /\ i + Len(word) <= Len(text)
    /\ \A k \in 1..i : text[k] \in Whitespace
    /\ \A k \in (i + Len(word) + 1)..Len(text) : text[k] \in Whitespace
    /\ \A k \in 1..Len(word) : SameLetter(text[i + k], word[k])

\* the words that name the pool
PoolSynonyms ==
  { << "u", "n", "a", "s", "s", "i", "g", "n", "e", "d" >>,
    << "n", "o", "n", "e" >>, << "p", "o", "o", "l" >> }

\* the container the entered text names, "" when it names none
Named(text) ==
  IF \E w \in PoolSynonyms : Says(text, w) THEN "unassigned"
  ELSE IF \E i \in 1..Len(TIERS) : Says(text, << TIERS[i] >>)
  THEN TIERS[CHOOSE i \in 1..Len(TIERS) : Says(text, << TIERS[i] >>)]
  ELSE ""

\* the prompt was answered with this text
Entered(response) == ~response.cancelled

\* C13: text that, trimmed and in any case, is unassigned, none or pool moves
\* the unit to the pool, text that is a tier's letter moves it to that tier,
\* and the update is exactly that of moveUnit; no message is shown
C13_FallbackMovesToNamedContainer ==
  [][ ( /\ Handles("handleFallbackAssign")
        /\ Entered(op'.response)
        /\ Named(op'.response.text) # "" )
      => ( /\ prev' = moveUnitUpdate(prev, op'.unitId, Named(op'.response.text))
           /\ alert' = "none"
           /\ items' = items ) ]_vars

\* C13 witness: "s" was entered for a unit outside S and the unit is now the
\* last of S
C13_Witness ==
  /\ pc = "render"
  /\ op.name = "handleFallbackAssign"
  /\ op.response.text = << "s" >>
  /\ ~Includes(items["S"], op.unitId)
  /\ prev["S"] # << >>
  /\ prev["S"][Len(prev["S"])] = op.unitId

\* text of whitespace only, or of nothing
Blank(text) == \A k \in 1..Len(text) : text[k] \in Whitespace

\* C14 as stated: every entered text that names no container, the empty and
\* the blank one included, leaves the mapping alone and shows the
\* unknown-tier message
C14_UnnamedTextIsRejected ==
  [][ ( /\ Handles("handleFallbackAssign")
        /\ Entered(op'.response)
        /\ Named(op'.response.text) = "" )
      => ( /\ prev' = prev
           /\ items' = items
           /\ alert' = "unknown-tier" ) ]_vars

\* C14 amended: entered text that names no container leaves the mapping
\* alone; it shows the unknown-tier message unless it is empty or blank,
\* and then no message is shown
C14_UnnamedTextIsRejectedUnlessBlank ==
  [][ ( /\ Handles("handleFallbackAssign")
        /\ Entered(op'.response)
        /\ Named(op'.response.text) = "" )
      => ( /\ prev' = prev
           /\ items' = items
           /\ stored' = stored
           /\ alert' = IF Blank(op'.response.text) THEN "none" ELSE "unknown-tier" ) ]_vars

\* C14 witness: zzz was entered and the message is up
C14_Witness ==
  /\ pc = "done"
  /\ op.name = "handleFallbackAssign"
  /\ op.response.text = << "z", "z", "z" >>
  /\ alert = "unknown-tier"
  /\ prev = items

\* every catalog unit in the pool in catalog order, every tier empty
AllUnassigned ==
  [ c \in ContainerIds |->
      IF c = "unassigned" THEN [ i \in 1..NumUnits |-> UnitPool[i].id ] ELSE << >> ]

\* the names of the catalog under the pool, nothing under the tiers
AllUnassignedNames ==
  [ c \in ContainerIds |->
      IF c = "unassigned" THEN [ i \in 1..NumUnits |-> UnitPool[i].name ] ELSE << >> ]

\* C15: a reset makes the default mapping the next mapping whatever the
\* mapping was, and an export that follows the reset with no other event
\* between them has every name under the pool and no name under a tier
C15_ResetThenExportIsDefault ==
  [][ /\ Handles("resetTierList") => prev' = AllUnassigned
      /\ (Handles("exportTierList") /\ op.name = "resetTierList")
           => (items = AllUnassigned /\ payload'.tiers = AllUnassignedNames) ]_vars

\* C15 witness: the export that followed a reset is out
C15_Witness ==
  /\ pc = "done"
  /\ op.name = "exportTierList"
  /\ op.branch = "after-reset"
  /\ Len(payload.tiers["unassigned"]) = NumUnits

\* C17: the export has a list for the pool and for every tier, as long as
\* the container's, holding at each place the name of the unit whose id the
\* container holds there; the mapping is not changed
C17_ExportListsNamesInOrder ==
  [][ Handles("exportTierList")
      => ( /\ DOMAIN payload'.tiers = {"unassigned"} \cup {TIERS[i] : i \in 1..Len(TIERS)}
           /\ \A c \in DOMAIN payload'.tiers :
                /\ Len(payload'.tiers[c]) = Len(items[c])
                /\ \A i \in 1..Len(items[c]) :
                     \E k \in 1..NumUnits :
                       /\ UnitPool[k].id = items[c][i]
                       /\ UnitPool[k].name = payload'.tiers[c][i]
           /\ prev' = prev
           /\ items' = items
           /\ stored' = stored ) ]_vars

\* C17 witness: an export with two names under one tier and one in the pool
C17_Witness ==
  /\ pc = "done"
  /\ op.name = "exportTierList"
  /\ \E i \in 1..Len(TIERS) : Len(payload.tiers[TIERS[i]]) >= 2
  /\ payload.tiers["unassigned"] # << >>

\* the stored value is an object with, for the pool and every tier, the
\* array of the ids the mapping has there, in order, and no other key
Serializes(v, m) ==
  /\ v.kind = "object"
  /\ DOMAIN v.obj = {"unassigned"} \cup {TIERS[i] : i \in 1..Len(TIERS)}
  /\ \A c \in DOMAIN v.obj : v.obj[c].isArray /\ v.obj[c].elems = m[c]

\* C16: once something is stored, the stored value is at every instant the
\* serialization of a mapping with every unit exactly once: of the rendered
\* mapping when no effect is pending (with no update queued after a handler
\* has returned), and while the effect of a render is pending of the rendered
\* mapping or of the one rendered just before it; unless the page is
\* loaded anew first, the effect runs after every render and stores the
\* rendered mapping
C16_StoredFollowsMapping ==
  [][ /\ stored'.kind # "absent" =>
           /\ \E m \in {items, items'} : Serializes(stored', m) /\ ExactlyOnce(m)
           /\ pc' # "effect" => Serializes(stored', items')
           /\ pc' = "idle" => prev' = items'
      /\ (pc = "render" /\ ~Loaded') => pc' = "effect"
      /\ (pc = "effect" /\ ~Loaded')
           => (Serializes(stored', items) /\ items' = items /\ pc' = "idle")
    ]_vars

\* C16 witness: a changed mapping is rendered and the stored value is still
\* that of the mapping before the change
C16_Witness ==
  /\ pc = "effect"
  /\ stored.kind = "object"
  /\ ~Serializes(stored, items)
  /\ prev = items

\* C20: a mapping with every unit exactly once is what initialState returns
\* for the value the persistence effect writes for it, container by
\* container and in the same order; and the mapping a page starts with
\* after a reload is the one its stored value serializes
C20_LoadInvertsPersist ==
  /\ ExactlyOnce(items) => initialState(stringify(items)) = items
  /\ ExactlyOnce(prev) => initialState(stringify(prev)) = prev
  /\ (Loaded /\ stored.kind = "object") => (Serializes(stored, items) /\ prev = items)

\* C20 witness: a page reloaded from a stored mapping with two units in one
\* tier, not in catalog order
C20_Witness ==
  /\ Loaded
  /\ stored.kind = "object"
  /\ \E i \in 1..Len(TIERS) :
       /\ Len(items[TIERS[i]]) >= 2
       /\ items[TIERS[i]][1] = UnitPool[2].id
       /\ items[TIERS[i]][2] = UnitPool[1].id

\* the step is a counted call of the named handler
Calls(name) == calls' = calls + 1 /\ op'.name = name

\* C18: a moveUnit call, whether the update of an earlier call has been
\* rendered or not, takes a mapping with every unit exactly once to a
\* mapping with every unit exactly once in which the moved unit is in the
\* target asked for last and every other unit is in the container it was in
C18_QueuedMovesKeepEveryUnitOnce ==
  [][ ( /\ Calls("handleFallbackAssign")
        /\ op'.branch = "move"
        /\ ExactlyOnce(prev) )
      => ( /\ ExactlyOnce(prev')
           /\ findIn(prev', op'.unitId) = op'.target
           /\ \A id \in UnitIds \ {op'.unitId} : findIn(prev', id) = findIn(prev, id) ) ]_vars

\* C18 witness: the second of two calls made without a render between them
\* moved a unit back to the container it is rendered in, after the first
\* had moved it out
C18_Witness ==
  /\ pc = "render"
  /\ calls = 2
  /\ op.name = "handleFallbackAssign"
  /\ op.branch = "move"
  /\ findIn(items, op.unitId) = op.target
  /\ ExactlyOnce(prev)
  /\ prev[op.target][Len(prev[op.target])] = op.unitId

\* C19 as stated: a drag end, whether the update of an earlier call has
\* been rendered or not, takes a mapping with every unit exactly once to a
\* mapping with every unit exactly once
C19_QueuedDragEndKeepsEveryUnitOnce ==
  [][ (Calls("handleDragEnd") /\ ExactlyOnce(prev)) => ExactlyOnce(prev') ]_vars

\* a unit is listed in two tiers after a drag end that followed a move of
\* the same unit with no render between them
DragEndAfterMoveDuplicates ==
  /\ calls = 2
  /\ op.name = "handleDragEnd"
  /\ op.branch = "insert"
  /\ Occurrences(prev, op.unitId) = 2
  /\ ExactlyOnce(items)

\* an undefined entry is listed after a drag end within a container that
\* followed a move out of that container with no render between them
DragEndAfterMoveInsertsUndefined ==
  /\ calls = 2
  /\ op.name = "handleDragEnd"
  /\ op.branch = "reorder"
  /\ "undefined" \in renderedIds(prev)
  /\ ExactlyOnce(items)

====
